---- MODULE Spec2Model ----
(***************************************************************************)
(* A model of the forty-two-lang parser (src/src/parser.rs): the token     *)
(* cursor of Parser, the recursive-descent parsing methods as recursive    *)
(* operators over the token stream, and Iterator::next as the one action   *)
(* that advances the parser.  The newer type parser of                     *)
(* src/src/parser/variable.rs is modelled beside the older parse_type.     *)
(***************************************************************************)
EXTENDS Integers, Sequences, FiniteSets, TLC

VARIABLES
    tokens,     \* the token stream handed to Parser::new
    cursor,     \* number of tokens already taken from Parser.tokens (Peekable)
    out,        \* log of the calls made so far: what was called, from where, its result
    panicked    \* TRUE once a call has panicked (the program has aborted)

vars == <<tokens, cursor, out, panicked>>

(***************************************************************************)
(* Bounds of the model.                                                    *)
(***************************************************************************)
\* longest token stream drawn from the whole alphabet
MaxLen == 3
\* most calls of next() / parse_type() recorded for one token stream
MaxCalls == 3
\* most arguments in a generated call or prototype
MaxArgs == 2
\* deepest pointer nesting in a generated type
MaxDepth == 3
\* most operators in a generated operator chain
MaxOps == 2
\* most comparisons of two operators recorded in one behaviour
MaxCompare == 2

(***************************************************************************)
(* Tokens.  A token stream is a sequence of lexemes; the kind of a lexeme  *)
(* and the position of the i-th token are derived as the lexer produces    *)
(* them: tokens of one line are laid out left to right, one blank apart,   *)
(* and an end-of-line token ends its line.                                 *)
(***************************************************************************)
Numbers == {"1", "2", "3"}
OperatorLexemes == {"+", "-", "*", "/", "<", ">"}

\* The kind of token the lexer of src/src/parser.rs produces for a lexeme.
TokenKind(lexeme) ==
    CASE lexeme = "def" -> "FunctionDefinition"
      [] lexeme = "extern" -> "Extern"
      [] lexeme = "EOL" -> "EndOfLine"
      [] lexeme = "(" -> "OpeningParentheses"
      [] lexeme = ")" -> "ClosingParentheses"
      [] lexeme = ":" -> "Colon"
      [] lexeme = "," -> "Comma"
      [] lexeme = "+" -> "Plus"
      [] lexeme = "-" -> "Minus"
      [] lexeme = "*" -> "Star"
      [] lexeme = "/" -> "Slash"
      [] lexeme = "<" -> "Less"
      [] lexeme = ">" -> "Greater"
      [] lexeme \in Numbers -> "Number"
      [] OTHER -> "Identifier"

\* The kind of token the lexer of src/src/parser/variable.rs produces: `ptr` is a keyword.
TokenKindNew(lexeme) ==
    CASE lexeme = "ptr" -> "Pointer"
      [] lexeme = "var" -> "VariableDeclaration"
      [] lexeme = "=" -> "Equal"
      [] OTHER -> TokenKind(lexeme)

\* Width of a lexeme in columns (an end of line is one character).
Width(lexeme) == IF lexeme = "EOL" THEN 1 ELSE Len(lexeme)

RECURSIVE LineOf(_, _)
\* 1-based line of the i-th token: one more than the end-of-line tokens before it.
LineOf(lexemes, i) ==
    IF i <= 1 THEN 1
    ELSE LineOf(lexemes, i - 1) + (IF lexemes[i - 1] = "EOL" THEN 1 ELSE 0)

RECURSIVE ColumnOf(_, _)
\* 1-based first column of the i-th token.
ColumnOf(lexemes, i) ==
    IF i <= 1 \/ lexemes[i - 1] = "EOL" THEN 1
    ELSE ColumnOf(lexemes, i - 1) + Width(lexemes[i - 1]) + 1

\* PositionRange { line, column: start..=end }
PositionRange(line, start, end) == [line |-> line, start |-> start, end |-> end]

\* PositionRange::default(), the position used when no token is available.
DefaultPosition == PositionRange(1, 1, 1)

TokenPosition(lexemes, i) ==
    PositionRange(LineOf(lexemes, i), ColumnOf(lexemes, i),
                  ColumnOf(lexemes, i) + Width(lexemes[i]) - 1)

\* The token stream of a sequence of lexemes: Token { data: TokenKind, position } each.
Lex(lexemes) ==
    [i \in 1..Len(lexemes) |->
        [kind |-> TokenKind(lexemes[i]), text |-> lexemes[i],
         position |-> TokenPosition(lexemes, i)]]

\* The i-th token of the stream.
Token(i) == tokens[i]

\* Option::None of a token.
NoToken == [kind |-> "None", text |-> "", position |-> DefaultPosition]

\* self.tokens.peek() with `cur` tokens already taken.
Peek(cur) == IF cur < Len(tokens) THEN Token(cur + 1) ELSE NoToken

\* A next() that starts over from the first token once the stream is exhausted.
Advance_starts_over(cur) == IF cur < Len(tokens) THEN cur + 1 ELSE 0

\* The cursor after self.tokens.next(): an exhausted stream stays exhausted.
Advance(cur) == IF cur < Len(tokens) THEN cur + 1 ELSE cur

current_position(cur) == Peek(cur).position

(***************************************************************************)
(* Results.  Every parsing method returns where it left the cursor and     *)
(* either Ok(value), Err(FTLError) or a panic that unwinds to the caller.  *)
(***************************************************************************)
Ok(val, cur) == [tag |-> "Ok", val |-> val, cur |-> cur]

FTLError(kind, position) == [node |-> "FTLError", kind |-> kind, position |-> position]

Err(kind, position, cur) == [tag |-> "Err", val |-> FTLError(kind, position), cur |-> cur]

Panic(where, cur) == [tag |-> "Panic", val |-> [node |-> "Panic", where |-> where], cur |-> cur]

(***************************************************************************)
(* The AST (src/src/ast.rs).                                               *)
(***************************************************************************)
PositionRangeContainer(data, position) == [data |-> data, position |-> position]

NumberExpr(c) == [node |-> "Number", data |-> c.data, position |-> c.position]

VariableExpr(c) == [node |-> "Variable", data |-> c.data, position |-> c.position]

FunctionCall(name, args) == [node |-> "FunctionCall", name |-> name, args |-> args]

BinaryExpression(lhs, operator, rhs) ==
    [node |-> "BinaryExpression", lhs |-> lhs, operator |-> operator, rhs |-> rhs]

FunctionArgument(name, data_type) == [name |-> name, data_type |-> data_type]

FunctionPrototype(name, args) == [node |-> "FunctionPrototype", name |-> name, args |-> args]

Function(prototype, body) == [node |-> "Function", prototype |-> prototype, body |-> body]

\* Option<PositionRangeContainer<BinaryOperator>>
NoOperator == [node |-> "None"]
SomeOperator(data, position) == [node |-> "Operator", data |-> data, position |-> position]

\* The six variants of BinaryOperator.
BinaryOperator == {"Less", "Greater", "Add", "Subtract", "Multiply", "Divide"}

\* The precedence table with the multiplicative operators on the additive level.
precedence_two_levels(operator) ==
    IF operator \in {"Less", "Greater"} THEN 10 ELSE 20

\* The precedence table of PartialOrd for BinaryOperator.
precedence(operator) ==
    CASE operator = "Less" -> 10
      [] operator = "Greater" -> 10
      [] operator = "Add" -> 20
      [] operator = "Subtract" -> 20
      [] operator = "Multiply" -> 30
      [] operator = "Divide" -> 30

\* PartialOrd for BinaryOperator::partial_cmp: the Ordering of the two precedences.
partial_cmp(a, b) ==
    IF precedence(a) < precedence(b) THEN "Less"
    ELSE IF precedence(a) > precedence(b) THEN "Greater"
    ELSE "Equal"

\* a > b on BinaryOperator: partial_cmp gives Some(Greater).
GreaterThan(a, b) == partial_cmp(a, b) = "Greater"

\* TryFrom<TokenKind> for BinaryOperator: "" stands for Err(IllegalToken).
try_from(kind) ==
    CASE kind = "Less" -> "Less"
      [] kind = "Star" -> "Multiply"
      [] kind = "Plus" -> "Add"
      [] kind = "Minus" -> "Subtract"
      [] OTHER -> ""

\* PositionRangeContainer::<BinaryOperator>::try_from2(token): the operator with the
\* token's position, or the conversion's error (raised with Default::default() position).
try_from2(token, cur) ==
    IF try_from(token.kind) = ""
    THEN Err("IllegalToken", DefaultPosition, cur)
    ELSE Ok(SomeOperator(try_from(token.kind), token.position), cur)

(***************************************************************************)
(* The parsing methods of Parser.  Each takes the cursor it starts from    *)
(* and returns a result carrying the cursor it ends at.                    *)
(***************************************************************************)
RECURSIVE parse_type(_)
RECURSIVE parse_argument_list_loop(_, _)
RECURSIVE parse_binary_operation_rhs(_, _, _)
RECURSIVE parse_primary_expression(_)

\* The `?` of Rust: an Err (or an unwinding panic) of `result` is what the caller
\* returns; otherwise the caller goes on with the Ok result.
Try(result, Then(_)) == IF result.tag # "Ok" THEN result ELSE Then(result)

\* BasicDataType::try_from knowing `int` only.
BasicDataType_int_only(text) ==
    CASE text = "int" -> "Int"
      [] OTHER -> ""

\* TryFrom<&str> for BasicDataType: "" stands for Err(()).
BasicDataType(text) ==
    CASE text = "int" -> "Int"
      [] text = "float" -> "Float"
      [] OTHER -> ""

BasicType(kind, position) == [node |-> "Basic", data |-> kind, position |-> position]
StructType(name, position) == [node |-> "Struct", data |-> name, position |-> position]
PointerType(inner, position) == [node |-> "Pointer", data |-> inner, position |-> position]

\* The position Parser::parse_type gives a pointer: from the first column of `ptr` to
\* the last column of the type pointed to, on the line of `ptr`.
PointerRange(ptr_position, inner_position) ==
    PositionRange(ptr_position.line, ptr_position.start, inner_position.end)

\* The identifier arm of parse_type and parse_data_type: a basic type or a struct.
NamedType(t, cur) ==
    IF BasicDataType(t.text) # ""
    THEN Ok(BasicType(BasicDataType(t.text), t.position), cur)
    ELSE Ok(StructType(t.text, t.position), cur)

\* Parser::parse_type: `ptr` is the identifier "ptr".
parse_type(cur) ==
    CASE Peek(cur).kind = "Identifier" /\ Peek(cur).text = "ptr" ->
            Try(parse_type(Advance(cur)),
                LAMBDA type_to_point_to:
                    Ok(PointerType(type_to_point_to.val,
                                   PointerRange(Peek(cur).position,
                                                type_to_point_to.val.position)),
                       type_to_point_to.cur))
      [] Peek(cur).kind = "Identifier" /\ Peek(cur).text # "ptr" ->
            NamedType(Peek(cur), Advance(cur))
      [] OTHER -> Err("IllegalToken", current_position(Advance(cur)), Advance(cur))

\* PushArgument putting the argument in front of the ones read before it.
PushArgument_in_front(arguments, name, data_type) ==
    IF Peek(data_type.cur).kind = "Comma"
    THEN parse_argument_list_loop(
             <<FunctionArgument(PositionRangeContainer(name.text, name.position),
                                data_type.val)>> \o arguments,
             Advance(data_type.cur))
    ELSE Ok(<<FunctionArgument(PositionRangeContainer(name.text, name.position),
                               data_type.val)>> \o arguments,
            data_type.cur)

\* The end of one turn of the loop of parse_argument_list: push the argument, then go
\* on after a comma or stop.
PushArgument(arguments, name, data_type) ==
    IF Peek(data_type.cur).kind = "Comma"
    THEN parse_argument_list_loop(
             Append(arguments,
                    FunctionArgument(PositionRangeContainer(name.text, name.position),
                                     data_type.val)),
             Advance(data_type.cur))
    ELSE Ok(Append(arguments,
                   FunctionArgument(PositionRangeContainer(name.text, name.position),
                                    data_type.val)),
            data_type.cur)

\* The loop of Parser::parse_argument_list: one `name : type` item per turn.
parse_argument_list_loop(arguments, cur) ==
    CASE Peek(cur).kind # "Identifier" ->
            Err("IllegalToken", current_position(Advance(cur)), Advance(cur))
      [] Peek(cur).kind = "Identifier" /\ Peek(Advance(cur)).kind # "Colon" ->
            Err("IllegalToken", current_position(Advance(Advance(cur))),
                Advance(Advance(cur)))
      [] OTHER ->
            Try(parse_type(Advance(Advance(cur))),
                LAMBDA data_type: PushArgument(arguments, Peek(cur), data_type))

\* Parser::parse_argument_list: empty unless the list starts with an identifier.
parse_argument_list(cur) ==
    IF Peek(cur).kind # "Identifier" THEN Ok(<<>>, cur)
    ELSE parse_argument_list_loop(<<>>, cur)

\* The end of parse_function_prototype: require and consume `)`.
ClosePrototype(name, args) ==
    IF Peek(args.cur).kind # "ClosingParentheses"
    THEN Err("IllegalSymbol", current_position(Advance(args.cur)), Advance(args.cur))
    ELSE Ok(FunctionPrototype(PositionRangeContainer(name.text, name.position), args.val),
            Advance(args.cur))

\* Parser::parse_function_prototype
parse_function_prototype(cur) ==
    CASE Peek(cur).kind # "Identifier" ->
            Err("IllegalToken", current_position(Advance(cur)), Advance(cur))
      [] Peek(cur).kind = "Identifier" /\ Peek(Advance(cur)).kind # "OpeningParentheses" ->
            Err("IllegalSymbol", current_position(Advance(Advance(cur))),
                Advance(Advance(cur)))
      [] OTHER ->
            Try(parse_argument_list(Advance(Advance(cur))),
                LAMBDA args: ClosePrototype(Peek(cur), args))

\* The end of Parser::parse_operator: take the operator from the stream when `consume`,
\* and only then compare it with `min_operator`.
AcceptOperator(min_operator, consume, operator, cur) ==
    IF min_operator = NoOperator \/ GreaterThan(operator.data, min_operator.data)
    THEN Ok(operator, IF consume THEN Advance(cur) ELSE cur)
    ELSE Ok(NoOperator, IF consume THEN Advance(cur) ELSE cur)

\* Parser::parse_operator
parse_operator(min_operator, consume, cur) ==
    IF Peek(cur).kind \in {"EndOfLine", "None"} THEN Ok(NoOperator, cur)
    ELSE Try(try_from2(Peek(cur), cur),
             LAMBDA operator: AcceptOperator(min_operator, consume, operator.val, cur))

\* The end of one turn of the loop of parse_binary_operation_rhs: let `rhs` go with a
\* stronger next operator, merge lhs and rhs, and go on with the loop.
MergeRhs(min_operator, lhs, operator, rhs, next_operator) ==
    IF next_operator.val # NoOperator /\ GreaterThan(next_operator.val.data, operator.data)
    THEN Try(parse_binary_operation_rhs(operator, rhs.val, next_operator.cur),
             LAMBDA rhs2:
                 parse_binary_operation_rhs(min_operator,
                                            BinaryExpression(lhs, operator, rhs2.val),
                                            rhs2.cur))
    ELSE parse_binary_operation_rhs(min_operator,
                                    BinaryExpression(lhs, operator, rhs.val),
                                    next_operator.cur)

\* One turn of the loop, once the operator has been read: the primary expression after
\* it, then a look at the next operator.
ReadRhs(min_operator, lhs, operator) ==
    IF operator.val = NoOperator THEN Ok(lhs, operator.cur)
    ELSE Try(parse_primary_expression(operator.cur),
             LAMBDA rhs:
                 Try(parse_operator(min_operator, FALSE, rhs.cur),
                     LAMBDA next_operator:
                         MergeRhs(min_operator, lhs, operator.val, rhs, next_operator)))

\* Parser::parse_binary_operation_rhs
parse_binary_operation_rhs(min_operator, lhs, cur) ==
    Try(parse_operator(min_operator, TRUE, cur),
        LAMBDA operator: ReadRhs(min_operator, lhs, operator))

\* Parser::parse_binary_expression
parse_binary_expression(cur) ==
    Try(parse_primary_expression(cur),
        LAMBDA lhs: parse_binary_operation_rhs(NoOperator, lhs.val, lhs.cur))

\* Parser::parse_number: panics unless the next token is a number.
parse_number(cur) ==
    IF Peek(cur).kind = "Number"
    THEN Ok(PositionRangeContainer(Peek(cur).text, Peek(cur).position), Advance(cur))
    ELSE Panic("parse_number", Advance(cur))

\* The end of parse_parentheses: require and consume `)`.
CloseParentheses(inner_expression) ==
    IF Peek(inner_expression.cur).kind # "ClosingParentheses"
    THEN Err("IllegalSymbol", current_position(Advance(inner_expression.cur)),
             Advance(inner_expression.cur))
    ELSE Ok(inner_expression.val, Advance(inner_expression.cur))

\* Parser::parse_parentheses: asserts `(`, parses the inner expression, requires `)`.
parse_parentheses(cur) ==
    IF Peek(cur).kind # "OpeningParentheses" THEN Panic("parse_parentheses", Advance(cur))
    ELSE Try(parse_binary_expression(Advance(cur)), CloseParentheses)

\* Parser::parse_variable: asserts that the identifier is not empty.
parse_variable(identifier, cur) ==
    IF identifier.data = "" THEN Panic("parse_variable", cur)
    ELSE Ok(identifier, cur)

\* The end of parse_function_call: asserts that `)` is the next token.
CloseCall(name, args) ==
    IF Peek(args.cur).kind # "ClosingParentheses"
    THEN Panic("parse_function_call", Advance(args.cur))
    ELSE Ok(FunctionCall(name, args.val), Advance(args.cur))

\* Parser::parse_function_call: asserts `(`, reads parse_argument_list, asserts `)`.
parse_function_call(name, cur) ==
    IF Peek(cur).kind # "OpeningParentheses" THEN Panic("parse_function_call", Advance(cur))
    ELSE Try(parse_argument_list(Advance(cur)), LAMBDA args: CloseCall(name, args))

\* parse_identifier_expression without the peek: every identifier is a variable.
parse_identifier_expression_no_peek(cur) ==
    IF Peek(cur).kind # "Identifier" THEN Panic("parse_identifier_expression", Advance(cur))
    ELSE Ok(VariableExpr(PositionRangeContainer(Peek(cur).text, Peek(cur).position)),
            Advance(cur))

\* Parser::parse_identifier_expression: a call when `(` follows, a variable otherwise.
parse_identifier_expression(cur) ==
    CASE Peek(cur).kind # "Identifier" ->
            Panic("parse_identifier_expression", Advance(cur))
      [] Peek(cur).kind = "Identifier" /\ Peek(Advance(cur)).kind = "OpeningParentheses" ->
            parse_function_call(PositionRangeContainer(Peek(cur).text, Peek(cur).position),
                                Advance(cur))
      [] OTHER ->
            Try(parse_variable(PositionRangeContainer(Peek(cur).text, Peek(cur).position),
                               Advance(cur)),
                LAMBDA variable: Ok(VariableExpr(variable.val), variable.cur))

\* parse_primary_expression consuming the token no expression can start with.
parse_primary_expression_consumes(cur) ==
    CASE Peek(cur).kind = "Identifier" -> parse_identifier_expression(cur)
      [] Peek(cur).kind = "Number" ->
            Try(parse_number(cur), LAMBDA number: Ok(NumberExpr(number.val), number.cur))
      [] Peek(cur).kind = "OpeningParentheses" -> parse_parentheses(cur)
      [] OTHER -> Err("ExpectedExpression", current_position(cur), Advance(cur))

\* Parser::parse_primary_expression
parse_primary_expression(cur) ==
    CASE Peek(cur).kind = "Identifier" -> parse_identifier_expression(cur)
      [] Peek(cur).kind = "Number" ->
            Try(parse_number(cur), LAMBDA number: Ok(NumberExpr(number.val), number.cur))
      [] Peek(cur).kind = "OpeningParentheses" -> parse_parentheses(cur)
      [] OTHER -> Err("ExpectedExpression", current_position(cur), cur)

\* Parser::parse_function_definition: asserts `def`, then a prototype and a body.
parse_function_definition(cur) ==
    IF Peek(cur).kind # "FunctionDefinition"
    THEN Panic("parse_function_definition", Advance(cur))
    ELSE Try(parse_function_prototype(Advance(cur)),
             LAMBDA prototype:
                 Try(parse_binary_expression(prototype.cur),
                     LAMBDA body: Ok(Function(prototype.val, body.val), body.cur)))

\* Parser::parse_extern_function: asserts `extern`, then a prototype.
parse_extern_function(cur) ==
    IF Peek(cur).kind # "Extern" THEN Panic("parse_extern_function", Advance(cur))
    ELSE parse_function_prototype(Advance(cur))

\* The prototype parse_top_level_expression builds: no arguments, and a name made of
\* the line of `position`.
MainPrototype(position) ==
    FunctionPrototype(
        PositionRangeContainer("__main_line_" \o ToString(position.line), position), <<>>)

\* Parser::parse_top_level_expression: the body wrapped in a function named after the
\* position current once the body has been parsed.
parse_top_level_expression(cur) ==
    Try(parse_binary_expression(cur),
        LAMBDA body:
            Ok(Function(MainPrototype(current_position(body.cur)), body.val), body.cur))

\* AstNode::Statement(Statement::<variant>(data))
Statement(variant, data) == [node |-> "Statement", variant |-> variant, data |-> data]

\* Some(match parse { Ok(x) => Ok(AstNode::Statement(..(x))), Err(err) => Err(err) })
Wrap(variant, result) ==
    IF result.tag = "Ok" THEN Ok(Statement(variant, result.val), result.cur) ELSE result

\* The item None of the iterator.
NoItem(cur) == [tag |-> "None", val |-> [node |-> "None"], cur |-> cur]

RECURSIVE next(_)
\* next() ending the sequence at an end of line instead of skipping it.
next_end_of_line_ends(cur) ==
    LET t == Peek(cur)
    IN  CASE t.kind = "None" -> NoItem(cur)
          [] t.kind = "FunctionDefinition" -> Wrap("Function", parse_function_definition(cur))
          [] t.kind = "Extern" -> Wrap("FunctionPrototype", parse_extern_function(cur))
          [] t.kind = "EndOfLine" -> NoItem(Advance(cur))
          [] OTHER -> Wrap("Function", parse_top_level_expression(cur))

\* A next() that remembers an error: None once a call has returned an error.
next_remembers_error(cur) ==
    LET t == Peek(cur)
    IN  CASE \E i \in 1..Len(out) : out[i].res.tag = "Err" -> NoItem(cur)
          [] t.kind = "None" -> NoItem(cur)
          [] t.kind = "FunctionDefinition" -> Wrap("Function", parse_function_definition(cur))
          [] t.kind = "Extern" -> Wrap("FunctionPrototype", parse_extern_function(cur))
          [] t.kind = "EndOfLine" -> next(Advance(cur))
          [] OTHER -> Wrap("Function", parse_top_level_expression(cur))

\* Iterator for Parser::next: dispatch on the peeked token; an end of line is
\* consumed and next() called again.
next(cur) ==
    LET t == Peek(cur)
    IN  CASE t.kind = "None" -> NoItem(cur)
          [] t.kind = "FunctionDefinition" -> Wrap("Function", parse_function_definition(cur))
          [] t.kind = "Extern" -> Wrap("FunctionPrototype", parse_extern_function(cur))
          [] t.kind = "EndOfLine" -> next(Advance(cur))
          [] OTHER -> Wrap("Function", parse_top_level_expression(cur))

(***************************************************************************)
(* The type parser of src/src/parser/variable.rs.                          *)
(***************************************************************************)
\* Token of the newer lexer: `ptr` is TokenKind::Pointer.
TokenNew(i) == [tokens[i] EXCEPT !.kind = TokenKindNew(tokens[i].text)]

PeekNew(cur) == IF cur < Len(tokens) THEN TokenNew(cur + 1) ELSE NoToken

\* Err(Error::ExpectedToken { expected, found })
ExpectedToken(expected, found, cur) ==
    [tag |-> "Err",
     val |-> [node |-> "ExpectedToken", expected |-> expected, found |-> found],
     cur |-> cur]

RECURSIVE parse_data_type(_)
\* parse_data_type: a pointer keeps the position of its `ptr` token.
parse_data_type(cur) ==
    CASE PeekNew(cur).kind = "Pointer" ->
            Try(parse_data_type(Advance(cur)),
                LAMBDA type_to_point_to:
                    Ok(PointerType(type_to_point_to.val, PeekNew(cur).position),
                       type_to_point_to.cur))
      [] PeekNew(cur).kind = "Identifier" -> NamedType(PeekNew(cur), Advance(cur))
      [] OTHER -> ExpectedToken("Identifier", PeekNew(cur), Advance(cur))

\* ast::statement::VariableDeclaration { name, data_type, value }
VariableDeclaration(name, data_type, value) ==
    [node |-> "VariableDeclaration", name |-> name, data_type |-> data_type,
     value |-> value]

\* The helpers of the declaration parser take the token handed over and require its
\* kind: Ok(token) or Err(Error::ExpectedToken).
parse_token(expected, cur) ==
    IF PeekNew(cur).kind # expected
    THEN ExpectedToken(expected, PeekNew(cur), Advance(cur))
    ELSE Ok(PeekNew(cur), Advance(cur))

\* helper::parse_variable_declaration: the declaration keyword.
helper_parse_variable_declaration(cur) == parse_token("VariableDeclaration", cur)

\* helper::parse_identifier
parse_identifier(cur) == parse_token("Identifier", cur)

\* helper::parse_colon
parse_colon(cur) == parse_token("Colon", cur)

\* helper::parse_equal
parse_equal(cur) == parse_token("Equal", cur)

\* The end of parse_variable_declaration: `=` and the value, a primary expression.
DeclaredValue(name, data_type) ==
    Try(parse_equal(data_type.cur),
        LAMBDA equal:
            Try(parse_primary_expression(equal.cur),
                LAMBDA value:
                    Ok(VariableDeclaration(
                           PositionRangeContainer(name.val.text, name.val.position),
                           data_type.val, value.val),
                       value.cur)))

\* parse_variable_declaration: the keyword, the name, `:`, the type, `=`, the value.
parse_variable_declaration(cur) ==
    Try(helper_parse_variable_declaration(cur),
        LAMBDA keyword:
            Try(parse_identifier(keyword.cur),
                LAMBDA name:
                    Try(parse_colon(name.cur),
                        LAMBDA colon:
                            Try(parse_data_type(colon.cur),
                                LAMBDA data_type: DeclaredValue(name, data_type)))))

(***************************************************************************)
(* Token streams the parser is run on.                                     *)
(***************************************************************************)
\* All sequences over S of length at most n.
SeqsUpTo(S, n) == UNION {[1..k -> S] : k \in 0..n}

\* Lexemes of the streams drawn without any structure.
Alphabet == {"def", "extern", "EOL", "foo", "int", "1", "(", ")", ":", ",", "+", "*", "/"}

Primaries == {"1", "x"}

RECURSIVE Chains(_)
\* Operator chains p (op p)^k.
Chains(k) ==
    IF k = 0 THEN {<<p>> : p \in Primaries}
    ELSE {c \o <<o, p>> : c \in Chains(k - 1), o \in OperatorLexemes, p \in Primaries}

ChainInputs ==
    LET chains == UNION {Chains(k) : k \in 0..MaxOps}
    IN  chains \cup {c \o <<"EOL">> : c \in chains}

ParenInputs ==
    UNION {{<<"(", "1", o1, "2", ")", o2, "3">>,
            <<"1", o1, "(", "2", o2, "3", ")">>,
            <<"(", "1", o1, "2", ")">>,
            <<"(", "1", o1, "2">>,
            <<"(", "1", ")", o2, "3">>} : o1 \in OperatorLexemes, o2 \in OperatorLexemes}
    \cup {<<"(", "1", ")">>, <<"(", "x", ")">>, <<"(", "(", "1", ")", ")">>}

RECURSIVE ExpressionLists(_)
\* n argument expressions separated by commas.
ExpressionLists(n) ==
    IF n = 0 THEN {<<>>}
    ELSE IF n = 1 THEN {<<e>> : e \in {"1", "2", "x"}}
    ELSE {l \o <<",", e>> : l \in ExpressionLists(n - 1), e \in {"1", "2", "x"}}

Types == {<<"int">>, <<"float">>, <<"Foo">>, <<"ptr", "int">>, <<"ptr", "ptr", "int">>}

RECURSIVE TypedLists(_)
\* n `name : type` items separated by commas.
TypedLists(n) ==
    IF n = 0 THEN {<<>>}
    ELSE IF n = 1 THEN {<<a, ":">> \o t : a \in {"x", "y"}, t \in Types}
    ELSE {l \o <<",", a, ":">> \o t : l \in TypedLists(n - 1), a \in {"x", "y"}, t \in Types}

ArgumentLists ==
    UNION {ExpressionLists(n) \cup TypedLists(n) : n \in 0..MaxArgs}
    \cup {<<"x", ":", "int", ",">>, <<"x", ":">>, <<"x">>, <<"1", ",">>}

\* Calls `foo ( ... )`, with and without the closing parenthesis, alone or as an operand.
CallInputs ==
    UNION {{<<"foo", "(">> \o a \o <<")">>,
            <<"foo", "(">> \o a,
            <<"foo", "(">> \o a \o <<")", "+", "1">>,
            <<"1", "+", "foo", "(">> \o a \o <<")">>} : a \in ArgumentLists}

\* Definitions and externs: a keyword, a prototype, a body or none, and what follows.
DefinitionInputs ==
    UNION {{<<k, "foo", "(">> \o a \o <<")">> \o b \o r :
                k \in {"def", "extern"},
                b \in {<<>>, <<"1">>, <<"1", "+", "x">>},
                r \in {<<>>, <<"EOL", "2">>,
                        <<"EOL", "extern", "foo", "(", ")", "EOL", "2">>}} :
           a \in ArgumentLists}

\* Chains of four operands over one operator of each level.
LongChainInputs ==
    {<<"x", o1, "1", o2, "y", o3, "2">> :
        o1 \in {"+", "*", "<"}, o2 \in {"+", "*", "<"}, o3 \in {"+", "*", "<"}}

\* The structured streams: chains, parentheses, calls, definitions.
StructuredInputs ==
    ChainInputs \cup LongChainInputs \cup ParenInputs \cup CallInputs \cup DefinitionInputs

\* Lexemes of the streams a type is parsed from.
TypeAlphabet == {"ptr", "int", "float", "Foo", ")", "EOL"}

TypeInputs == SeqsUpTo(TypeAlphabet, MaxDepth + 1)

\* Declarations `var name : type = value`, with and without the keyword, the value a
\* primary expression or one operator between two.
DeclarationInputs ==
    {k \o <<"x", ":">> \o t \o <<"=">> \o v :
        k \in {<<"var">>, <<>>}, t \in Types, v \in Chains(0) \cup Chains(1)}

\* Lexemes of the streams a declaration is parsed from.
DeclarationAlphabet == {"var", "x", ":", "int", "=", "1", "+"}

(***************************************************************************)
(* The state machine: a parser over one token stream, driven by next().    *)
(***************************************************************************)
Call(name, from, res) == [call |-> name, from |-> from, res |-> res]

Init ==
    /\ \/ \E lexemes \in SeqsUpTo(Alphabet, MaxLen) : tokens = Lex(lexemes)
       \/ \E lexemes \in StructuredInputs : tokens = Lex(lexemes)
    /\ cursor = 0
    /\ out = <<>>
    /\ panicked = FALSE

\* One call of Parser::next by the consumer of the iterator.
ParserNext ==
    /\ ~panicked
    /\ Len(out) < MaxCalls
    /\ LET item == next(cursor)
       IN  /\ out' = Append(out, Call("next", cursor, item))
           /\ cursor' = item.cur
           /\ panicked' = (item.tag = "Panic")
    /\ UNCHANGED tokens

Next == ParserNext

Spec == Init /\ [][Next]_vars

(***************************************************************************)
(* The type parsers applied to a token stream of their own.                *)
(***************************************************************************)
\* Well-formed position ranges on two lines.
Ranges ==
    {r \in {PositionRange(l, s, e) : l \in 1..2, s \in {1, 3, 5, 7}, e \in {1, 3, 5, 7}} :
        r.start <= r.end}

\* The range p lies before the range q in the source.
Before(p, q) == p.line < q.line \/ (p.line = q.line /\ p.end < q.start)

\* The streams `ptr int` and `ptr Foo` of tokens with any well-formed ranges in the
\* order of the source.
PositionedTypeInputs ==
    {<<[kind |-> "Identifier", text |-> "ptr", position |-> p],
       [kind |-> "Identifier", text |-> t, position |-> q]>> :
        p \in Ranges, q \in Ranges, t \in {"int", "Foo"}}

InitType ==
    /\ \/ \E lexemes \in TypeInputs : tokens = Lex(lexemes)
       \/ \E stream \in PositionedTypeInputs :
             tokens = stream /\ Before(stream[1].position, stream[2].position)
    /\ cursor = 0
    /\ out = <<>>
    /\ panicked = FALSE

\* One call of Parser::parse_type.
CallParseType ==
    /\ Len(out) < MaxCalls
    /\ LET r == parse_type(cursor)
       IN  /\ out' = Append(out, Call("parse_type", cursor, r))
           /\ cursor' = r.cur
    /\ UNCHANGED <<tokens, panicked>>

\* One call of parse_data_type.
CallParseDataType ==
    /\ Len(out) < MaxCalls
    /\ LET r == parse_data_type(cursor)
       IN  /\ out' = Append(out, Call("parse_data_type", cursor, r))
           /\ cursor' = r.cur
    /\ UNCHANGED <<tokens, panicked>>

NextType == CallParseType \/ CallParseDataType

SpecType == InitType /\ [][NextType]_vars

(***************************************************************************)
(* parse_primary_expression applied to a token stream of its own, as       *)
(* parse_binary_expression applies it to the stream at its cursor.         *)
(***************************************************************************)
PrimaryAlphabet == {"foo", "1", "(", ")", ",", "+"}

InitPrimary ==
    /\ \/ \E lexemes \in SeqsUpTo(PrimaryAlphabet, MaxLen + 1) : tokens = Lex(lexemes)
       \/ \E lexemes \in CallInputs : tokens = Lex(lexemes)
    /\ cursor = 0
    /\ out = <<>>
    /\ panicked = FALSE

\* One call of Parser::parse_primary_expression.
CallParsePrimaryExpression ==
    /\ ~panicked
    /\ Len(out) < MaxCalls
    /\ LET r == parse_primary_expression(cursor)
       IN  /\ out' = Append(out, Call("parse_primary_expression", cursor, r))
           /\ cursor' = r.cur
           /\ panicked' = (r.tag = "Panic")
    /\ UNCHANGED tokens

NextPrimary == CallParsePrimaryExpression

SpecPrimary == InitPrimary /\ [][NextPrimary]_vars

(***************************************************************************)
(* The claims.  What the specification expects is written down here        *)
(* independently of the parsing methods above: the operators by their      *)
(* three levels, and the trees built from the tokens of the stream.        *)
(***************************************************************************)
\* The lexemes of the token stream.
Texts == [i \in 1..Len(tokens) |-> tokens[i].text]

\* The binary operator a lexeme stands for.
OperatorNamed(lexeme) ==
    CASE lexeme = "+" -> "Add"
      [] lexeme = "-" -> "Subtract"
      [] lexeme = "*" -> "Multiply"
      [] lexeme = "/" -> "Divide"
      [] lexeme = "<" -> "Less"
      [] lexeme = ">" -> "Greater"

\* The level of an operator: comparison < additive < multiplicative.
Level(lexeme) ==
    CASE lexeme \in {"<", ">"} -> 1
      [] lexeme \in {"+", "-"} -> 2
      [] lexeme \in {"*", "/"} -> 3

\* The operators the conversion from a token kind knows.
Convertible == {"+", "-", "*", "<"}

\* The leaf expected for the number or identifier that is the i-th token.
Operand(i) ==
    IF tokens[i].kind = "Number"
    THEN [node |-> "Number", data |-> tokens[i].text, position |-> tokens[i].position]
    ELSE [node |-> "Variable", data |-> tokens[i].text, position |-> tokens[i].position]

\* The binary expression expected for the operator that is the i-th token.
Binary(lhs, i, rhs) ==
    [node |-> "BinaryExpression", lhs |-> lhs,
     operator |-> [node |-> "Operator", data |-> OperatorNamed(tokens[i].text),
                   position |-> tokens[i].position],
     rhs |-> rhs]

IsOperand(i) == tokens[i].kind \in {"Number", "Identifier"}
IsOperator(i) == tokens[i].text \in OperatorLexemes

\* The stream is `a OP1 b OP2 c` followed by the end of the input.
IsChain3 ==
    /\ Len(tokens) = 5
    /\ IsOperand(1) /\ IsOperator(2) /\ IsOperand(3) /\ IsOperator(4) /\ IsOperand(5)

\* OP2(OP1(a, b), c) and OP1(a, OP2(b, c)) for the stream `a OP1 b OP2 c`.
LeftGrouped == Binary(Binary(Operand(1), 2, Operand(3)), 4, Operand(5))
RightGrouped == Binary(Operand(1), 2, Binary(Operand(3), 4, Operand(5)))

\* The first call of next() was made on the whole stream.
FirstCallMade == Len(out) >= 1 /\ out[1].call = "next" /\ out[1].from = 0

\* The first call of next() yielded a top-level function with this body.
FirstBodyIs(body) ==
    /\ out[1].res.tag = "Ok"
    /\ out[1].res.val.variant = "Function"
    /\ out[1].res.val.data.body = body

\* C1: every `a OP1 b OP2 c` over + - * / < > followed by the end of the input parses,
\* and the tree groups the operands of the higher-precedence operator: OP1(a, OP2(b, c))
\* when OP2 is strictly stronger than OP1, OP2(OP1(a, b), c) otherwise.
C1_PrecedenceGrouping ==
    (IsChain3 /\ FirstCallMade) =>
        FirstBodyIs(IF Level(tokens[4].text) > Level(tokens[2].text)
                    THEN RightGrouped ELSE LeftGrouped)

\* C2: operators of equal precedence (Add/Subtract, Multiply/Divide, Less/Greater, an
\* operator with itself) are left-associative: `a OP1 b OP2 c` parses to OP2(OP1(a, b), c).
C2_LeftAssociative ==
    (IsChain3 /\ Level(tokens[2].text) = Level(tokens[4].text) /\ FirstCallMade) =>
        FirstBodyIs(LeftGrouped)

\* The stream is `( a OP1 b ) OP2 c` with operators the conversion knows.
IsParenthesisedLeft ==
    /\ Len(tokens) = 7
    /\ tokens[1].kind = "OpeningParentheses" /\ tokens[5].kind = "ClosingParentheses"
    /\ IsOperand(2) /\ IsOperand(4) /\ IsOperand(7)
    /\ tokens[3].text \in Convertible /\ tokens[6].text \in Convertible

\* C3: parentheses override precedence: `( a OP1 b ) OP2 c` parses to OP2(OP1(a, b), c)
\* with no node for the parentheses, the `)` ending the inner expression without an
\* error; `(1 + 2) * 3` gives Multiply(Add(1, 2), 3).
C3_ParenthesesOverride ==
    (IsParenthesisedLeft /\ FirstCallMade) =>
        FirstBodyIs(Binary(Binary(Operand(2), 3, Operand(4)), 6, Operand(7)))

RECURSIVE PointerRun(_)
\* The number of `ptr` tokens in a row from the i-th token on.
PointerRun(i) ==
    IF i <= Len(tokens) /\ tokens[i].text = "ptr" THEN 1 + PointerRun(i + 1) ELSE 0

RECURSIVE ExpectedType(_, _)
\* The type expected for the tokens i..last, `ptr ... ptr T`: every pointer ranges from
\* its own `ptr` to the end of the innermost type T.
ExpectedType(i, last) ==
    IF i < last
    THEN [node |-> "Pointer", data |-> ExpectedType(i + 1, last),
          position |-> [line |-> tokens[i].position.line,
                        start |-> tokens[i].position.start,
                        end |-> tokens[last].position.end]]
    ELSE [node |-> CASE tokens[i].text \in {"int", "float"} -> "Basic"
                     [] OTHER -> "Struct",
          data |-> CASE tokens[i].text = "int" -> "Int"
                     [] tokens[i].text = "float" -> "Float"
                     [] OTHER -> tokens[i].text,
          position |-> tokens[i].position]

\* The i-th call parsed a type from tokens that are n >= 1 `ptr` and then a type name.
ParsedPointerType(i) ==
    /\ out[i].call \in {"parse_type", "parse_data_type"}
    /\ PointerRun(out[i].from + 1) >= 1
    /\ out[i].from + PointerRun(out[i].from + 1) + 1 <= Len(tokens)
    /\ tokens[out[i].from + PointerRun(out[i].from + 1) + 1].kind = "Identifier"

\* C4: `ptr ptr int` parses to Pointer(Pointer(Basic(Int))), and at every depth n >= 1
\* each Pointer ranges from its own `ptr` to the end of the innermost type, so that the
\* outermost range spans all n+1 tokens.
C4_PointerRange ==
    \A i \in 1..Len(out) :
        ParsedPointerType(i) =>
            /\ out[i].res.tag = "Ok"
            /\ out[i].res.cur = out[i].from + PointerRun(out[i].from + 1) + 1
            /\ out[i].res.val = ExpectedType(out[i].from + 1, out[i].res.cur)

\* The i-th call parsed a primary expression that starts with an identifier.
ParsedIdentifier(i) ==
    /\ out[i].call = "parse_primary_expression"
    /\ out[i].from < Len(tokens)
    /\ tokens[out[i].from + 1].kind = "Identifier"

\* The token after the identifier the i-th call started from is `(`.
ParenthesisFollows(i) ==
    /\ out[i].from + 2 <= Len(tokens)
    /\ tokens[out[i].from + 2].kind = "OpeningParentheses"

\* C5: a primary expression that starts with an identifier is a Variable exactly when
\* the token after the identifier is not `(` (that token is peeked, not consumed), and
\* is handed to the function call, never read as a Variable, exactly when it is `(`;
\* `foo` gives Variable("foo") and `foo()` gives FunctionCall{name: "foo", args: []}.
C5_VariableOrCall ==
    \A i \in 1..Len(out) :
        ParsedIdentifier(i) =>
            /\ ~ParenthesisFollows(i) =>
                  /\ out[i].res.tag = "Ok"
                  /\ out[i].res.val = Operand(out[i].from + 1)
                  /\ out[i].res.cur = out[i].from + 1
            /\ ParenthesisFollows(i) =>
                  /\ out[i].res.val.node \in {"FunctionCall", "FTLError", "Panic"}
                  /\ out[i].res.cur >= out[i].from + 2
                  /\ out[i].res.tag = "Ok" =>
                        /\ out[i].res.val.node = "FunctionCall"
                        /\ out[i].res.val.name.data = tokens[out[i].from + 1].text
                        /\ out[i].res.val.name.position = tokens[out[i].from + 1].position
                  /\ (/\ out[i].from + 3 <= Len(tokens)
                      /\ tokens[out[i].from + 3].kind = "ClosingParentheses") =>
                        /\ out[i].res.tag = "Ok"
                        /\ out[i].res.val.node = "FunctionCall"
                        /\ out[i].res.val.args = <<>>
                        /\ out[i].res.cur = out[i].from + 3

\* Witness of C5: one stream on which a call returned a Variable although a token
\* followed the identifier, and a later call returned a FunctionCall without arguments.
C5_Witness ==
    \E i, j \in 1..Len(out) :
        /\ ParsedIdentifier(i) /\ ~ParenthesisFollows(i)
        /\ out[i].from + 2 <= Len(tokens)
        /\ out[i].res.val.node = "Variable"
        /\ ParsedIdentifier(j) /\ ParenthesisFollows(j)
        /\ out[j].res.tag = "Ok" /\ out[j].res.val.node = "FunctionCall"

\* The stream is `name ( e1 , ... , en )` with n >= 0 numbers or variables as arguments.
IsExpressionCall ==
    /\ Len(tokens) >= 3
    /\ tokens[1].kind = "Identifier"
    /\ tokens[2].kind = "OpeningParentheses"
    /\ tokens[Len(tokens)].kind = "ClosingParentheses"
    /\ Len(tokens) = 3 \/ Len(tokens) % 2 = 0
    /\ \A k \in 3..(Len(tokens) - 1) :
          IF k % 2 = 1 THEN IsOperand(k) ELSE tokens[k].kind = "Comma"

\* The arguments expected for the stream `name ( e1 , ... , en )`, in source order.
ExpectedArguments == [k \in 1..((Len(tokens) - 2) \div 2) |-> Operand(1 + 2 * k)]

\* C6: a call `name ( e1 , ... , en )`, n >= 0, parses to FunctionCall{name, args} with
\* the n argument expressions in source order; `foo(1, 2)` yields Number 1, Number 2.
C6_CallArguments ==
    (IsExpressionCall /\ FirstCallMade) =>
        FirstBodyIs([node |-> "FunctionCall",
                     name |-> [data |-> tokens[1].text, position |-> tokens[1].position],
                     args |-> ExpectedArguments])

\* C7: the parser never panics: every call of next() returns None, Ok or Err.
C7_NeverPanics ==
    \A i \in 1..Len(out) :
        out[i].call = "next" => out[i].res.tag \in {"None", "Ok", "Err"}

\* C8: the sequence of results is finite: every call of next() that returns Some(Ok) or
\* Some(Err) has consumed at least one token, so no stream yields Err forever.
C8_EveryItemConsumes ==
    \A i \in 1..Len(out) :
        (out[i].call = "next" /\ out[i].res.tag \in {"Ok", "Err"}) =>
            out[i].res.cur > out[i].from

\* p is at or after q in the source.
AtOrAfter(p, q) == p.line > q.line \/ (p.line = q.line /\ p.start >= q.start)

\* C9: `foo(1, 2` without the closing `)` fails with an error of the
\* ExpectedSymbol/IllegalSymbol class, positioned at or after the last consumed token
\* and not at the default position.
C9_MissingParenthesisError ==
    (Texts = <<"foo", "(", "1", ",", "2">> /\ FirstCallMade) =>
        /\ out[1].res.tag = "Err"
        /\ out[1].res.val.kind \in {"ExpectedSymbol", "IllegalSymbol"}
        /\ out[1].res.val.position # DefaultPosition
        /\ out[1].res.cur >= 1
        /\ AtOrAfter(out[1].res.val.position, tokens[out[1].res.cur].position)

RECURSIVE SkipTerminators(_)
\* The index of the first token from the i-th on that is not a statement terminator,
\* Len(tokens) + 1 when there is none.
SkipTerminators(i) ==
    IF i <= Len(tokens) /\ tokens[i].kind = "EndOfLine" THEN SkipTerminators(i + 1) ELSE i

RECURSIVE FirstClosing(_)
\* The index of the first `)` from the i-th token on, Len(tokens) + 1 when there is none.
FirstClosing(i) ==
    IF i <= Len(tokens) /\ tokens[i].kind # "ClosingParentheses"
    THEN FirstClosing(i + 1) ELSE i

RECURSIVE Leftmost(_)
\* The position of the first token of an expression.
Leftmost(e) ==
    CASE e.node = "BinaryExpression" -> Leftmost(e.lhs)
      [] e.node = "FunctionCall" -> e.name.position
      [] OTHER -> e.position

ExpressionNodes == {"BinaryExpression", "FunctionCall", "Number", "Variable"}

\* What the item `r` must be when next() dispatched on the s-th token.
DispatchedOn(s, r) ==
    CASE tokens[s].kind = "FunctionDefinition" ->
            /\ r.val.variant = "Function"
            /\ r.val.data.node = "Function"
            /\ r.val.data.prototype.node = "FunctionPrototype"
            /\ r.val.data.prototype.name.position = tokens[s + 1].position
            /\ r.val.data.body.node \in ExpressionNodes
            /\ Leftmost(r.val.data.body) = tokens[FirstClosing(s) + 1].position
            /\ r.cur > FirstClosing(s)
      [] tokens[s].kind = "Extern" ->
            /\ r.val.variant = "FunctionPrototype"
            /\ r.val.data.node = "FunctionPrototype"
            /\ r.val.data.name.position = tokens[s + 1].position
            /\ r.cur = FirstClosing(s)
      [] OTHER ->
            /\ r.val.variant = "Function"
            /\ r.val.data.node = "Function"
            /\ r.val.data.prototype.args = <<>>
            /\ r.val.data.body.node \in ExpressionNodes
            /\ Leftmost(r.val.data.body) = tokens[s].position
            /\ r.cur >= s

\* C10: next() dispatches on the first token that is not a statement terminator: a
\* FunctionDef yields Statement::Function of a prototype and the body after it, an Extern
\* yields Statement::FunctionPrototype of a prototype only, any other token yields a
\* Statement::Function wrapping an expression; terminators are consumed and yield no
\* item, and a stream with nothing but terminators left yields None.
C10_Dispatch ==
    \A i \in 1..Len(out) :
        out[i].call = "next" =>
            /\ out[i].res.cur >= SkipTerminators(out[i].from + 1) - 1
            /\ out[i].res.tag = "None" <=> SkipTerminators(out[i].from + 1) > Len(tokens)
            /\ out[i].res.tag = "None" => out[i].res.cur = Len(tokens)
            /\ out[i].res.tag = "Ok" =>
                  DispatchedOn(SkipTerminators(out[i].from + 1), out[i].res)

\* Witness of C10: one stream on which next() yielded a function definition, then
\* skipped a terminator and yielded the prototype of an extern, then skipped another
\* and yielded a wrapped expression.
C10_Witness ==
    /\ Len(out) >= 3
    /\ out[1].res.tag = "Ok" /\ tokens[1].kind = "FunctionDefinition"
    /\ out[2].res.tag = "Ok" /\ out[2].res.val.variant = "FunctionPrototype"
    /\ SkipTerminators(out[2].from + 1) > out[2].from + 1
    /\ out[3].res.tag = "Ok" /\ out[3].res.val.variant = "Function"
    /\ SkipTerminators(out[3].from + 1) > out[3].from + 1

\* The call `c` of next() dispatched on an expression: the first token that is not a
\* statement terminator is neither `def` nor `extern`, and the item is Ok.
IsTopLevelExpression(c) ==
    /\ c.call = "next"
    /\ c.res.tag = "Ok"
    /\ SkipTerminators(c.from + 1) <= Len(tokens)
    /\ tokens[SkipTerminators(c.from + 1)].kind \notin {"FunctionDefinition", "Extern"}

\* C11: every top-level expression is yielded as a Function without arguments named
\* `__main_line_<line>`, <line> being the line of the expression that is wrapped.
C11_MainLineName ==
    \A i \in 1..Len(out) :
        IsTopLevelExpression(out[i]) =>
            /\ out[i].res.val.data.node = "Function"
            /\ out[i].res.val.data.prototype.args = <<>>
            /\ out[i].res.val.data.prototype.name.data =
                  "__main_line_" \o ToString(Leftmost(out[i].res.val.data.body).line)

(***************************************************************************)
(* The comparison of operators on its own: any two operators are compared. *)
(***************************************************************************)
InitOrder ==
    /\ tokens = <<>>
    /\ cursor = 0
    /\ out = <<>>
    /\ panicked = FALSE

\* One evaluation of `x.partial_cmp(&y)` and of `x > y`.
ComparePrecedence ==
    /\ Len(out) < MaxCompare
    /\ \E x \in BinaryOperator, y \in BinaryOperator :
          out' = Append(out, [call |-> "partial_cmp", self |-> x, other |-> y,
                              res |-> partial_cmp(x, y), gt |-> GreaterThan(x, y),
                              lt |-> GreaterThan(y, x)])
    /\ UNCHANGED <<tokens, cursor, panicked>>

NextOrder == ComparePrecedence

SpecOrder == InitOrder /\ [][NextOrder]_vars

\* The level of an operator: comparison, additive, multiplicative.
OperatorLevel(operator) ==
    CASE operator \in {"Less", "Greater"} -> 1
      [] operator \in {"Add", "Subtract"} -> 2
      [] operator \in {"Multiply", "Divide"} -> 3

\* C12: the comparison orders the six operators in three levels, comparison below
\* additive below multiplicative: x > y exactly when x is on a strictly higher level,
\* and two operators of one level are neither greater nor less.
C12_PrecedenceLevels ==
    \A i \in 1..Len(out) :
        out[i].call = "partial_cmp" =>
            /\ out[i].gt <=> OperatorLevel(out[i].self) > OperatorLevel(out[i].other)
            /\ out[i].lt <=> OperatorLevel(out[i].self) < OperatorLevel(out[i].other)
            /\ out[i].res = "Greater" <=> out[i].gt
            /\ out[i].res = "Less" <=> out[i].lt
            /\ OperatorLevel(out[i].self) = OperatorLevel(out[i].other) =>
                  out[i].res = "Equal" /\ ~out[i].gt /\ ~out[i].lt

\* Witness of C12: a multiplicative operator compared greater than an additive one,
\* then two different operators of the additive level compared as equal.
C12_Witness ==
    /\ Len(out) = 2
    /\ out[1].self = "Divide" /\ out[1].other = "Add" /\ out[1].gt
    /\ out[2].self = "Add" /\ out[2].other = "Subtract" /\ out[2].res = "Equal"

(***************************************************************************)
(* The conversion of token kinds to operators on its own: the tokens of a  *)
(* stream are converted one after the other.                               *)
(***************************************************************************)
\* One lexeme of every token kind.
KindLexemes ==
    {"def", "extern", "EOL", "(", ")", ":", ",", "+", "-", "*", "/", "<", ">", "1", "foo"}

InitConvert ==
    /\ \E lexemes \in SeqsUpTo(KindLexemes, MaxLen - 1) : tokens = Lex(lexemes)
    /\ cursor = 0
    /\ out = <<>>
    /\ panicked = FALSE

\* One evaluation of BinaryOperator::try_from(token.data) on the next token.
CallTryFrom ==
    /\ cursor < Len(tokens)
    /\ out' = Append(out, [call |-> "try_from", kind |-> Peek(cursor).kind,
                           res |-> try_from(Peek(cursor).kind)])
    /\ cursor' = Advance(cursor)
    /\ UNCHANGED <<tokens, panicked>>

NextConvert == CallTryFrom

SpecConvert == InitConvert /\ [][NextConvert]_vars

\* The operator each binary-operator token stands for.
OperatorOfKind(kind) ==
    CASE kind = "Plus" -> "Add"
      [] kind = "Minus" -> "Subtract"
      [] kind = "Star" -> "Multiply"
      [] kind = "Slash" -> "Divide"
      [] kind = "Less" -> "Less"
      [] kind = "Greater" -> "Greater"
      [] OTHER -> ""

\* C13: each of the tokens Plus, Minus, Star, Slash, Less and Greater converts to
\* Add, Subtract, Multiply, Divide, Less and Greater respectively, and every other
\* token kind fails the conversion with IllegalToken ("" in the model).
C13_OperatorConversion ==
    \A i \in 1..Len(out) :
        out[i].call = "try_from" => out[i].res = OperatorOfKind(out[i].kind)

\* The kind of the i-th token, "None" past the end of the stream.
KindAt(i) == IF i <= Len(tokens) THEN tokens[i].kind ELSE "None"

\* The stream starts with `def name` or `extern name`.
StartsPrototype ==
    /\ KindAt(1) \in {"FunctionDefinition", "Extern"}
    /\ KindAt(2) = "Identifier"

\* A punctuation symbol the grammar requires is missing in the first construct of the
\* stream: the `(` of a prototype, the `:` after the name of its first argument, the
\* `)` after its empty argument list, or the `)` after a parenthesised primary.
SymbolMissing ==
    \/ StartsPrototype /\ KindAt(3) # "OpeningParentheses"
    \/ StartsPrototype /\ KindAt(3) = "OpeningParentheses"
          /\ KindAt(4) = "Identifier" /\ KindAt(5) # "Colon"
    \/ StartsPrototype /\ KindAt(3) = "OpeningParentheses"
          /\ KindAt(4) \notin {"Identifier", "ClosingParentheses"}
    \/ /\ KindAt(1) = "OpeningParentheses"
       /\ KindAt(2) = "Number"
       /\ KindAt(3) \notin {"ClosingParentheses", "Plus", "Minus", "Star", "Slash",
                            "Less", "Greater"}

\* C14: when the grammar requires one of `(`, `)`, `:`, `,` and the next token is
\* another one or the stream is exhausted, the parse fails with an error of kind
\* IllegalSymbol/ExpectedSymbol.
C14_MissingSymbolError ==
    (FirstCallMade /\ SymbolMissing) =>
        /\ out[1].res.tag = "Err"
        /\ out[1].res.val.kind \in {"IllegalSymbol", "ExpectedSymbol"}

\* The kinds of token a primary expression starts with.
PrimaryStarts == {"Identifier", "Number", "OpeningParentheses"}

\* The result `r` is the error ExpectedExpression raised with the cursor at `cur`, at
\* the position of the token there.
ExpectedExpressionAt(r, cur) ==
    /\ r.tag = "Err"
    /\ r.val.kind = "ExpectedExpression"
    /\ r.val.position = current_position(cur)
    /\ r.cur = cur

\* C15: when a primary expression is required and the next token is not an identifier,
\* a number or `(`, the end of the stream included, the parse fails with
\* ExpectedExpression and the failing step consumes no token: at the start of the
\* call, after an opening parenthesis, and after the operator of `( 1 +`.
C15_ExpectedExpression ==
    \A i \in 1..Len(out) :
        out[i].call = "parse_primary_expression" =>
            LET from == out[i].from
            IN  /\ KindAt(from + 1) \notin PrimaryStarts =>
                      ExpectedExpressionAt(out[i].res, from)
                /\ (KindAt(from + 1) = "OpeningParentheses"
                      /\ KindAt(from + 2) \notin PrimaryStarts) =>
                      ExpectedExpressionAt(out[i].res, from + 1)
                /\ (KindAt(from + 1) = "OpeningParentheses"
                      /\ KindAt(from + 2) = "Number"
                      /\ KindAt(from + 3) = "Plus"
                      /\ KindAt(from + 4) \notin PrimaryStarts) =>
                      ExpectedExpressionAt(out[i].res, from + 3)

\* Witness of C15: on `( 1 +` the operand after the operator is missing at the end of
\* the stream, and a second call at the end of the stream fails without consuming.
C15_Witness ==
    /\ Len(tokens) = 3
    /\ Len(out) = 2
    /\ out[1].from = 0
    /\ KindAt(1) = "OpeningParentheses" /\ KindAt(2) = "Number" /\ KindAt(3) = "Plus"
    /\ ExpectedExpressionAt(out[1].res, 3)
    /\ ExpectedExpressionAt(out[2].res, 3)

\* The index of the last token of the type that starts at the i-th token.
TypeEnd(i) == i + PointerRun(i)

\* An item `identifier : type` starts at the i-th token.
IsItem(i) ==
    /\ KindAt(i) = "Identifier"
    /\ KindAt(i + 1) = "Colon"
    /\ KindAt(TypeEnd(i + 2)) = "Identifier"

\* The FunctionArgument of the item that starts at the i-th token.
ItemAt(i) ==
    FunctionArgument(PositionRangeContainer(tokens[i].text, tokens[i].position),
                     ExpectedType(i + 2, TypeEnd(i + 2)))

RECURSIVE ExpectedList(_)
\* The argument list that starts at the i-th token as the grammar reads it: whether
\* it is well formed, its arguments in source order, and the index of its last token.
\* It is empty when no identifier starts it, it ends at the first item that no comma
\* follows, and a comma must be followed by another item.
ExpectedList(i) ==
    IF KindAt(i) # "Identifier" THEN [ok |-> TRUE, args |-> <<>>, last |-> i - 1]
    ELSE IF ~IsItem(i) THEN [ok |-> FALSE, args |-> <<>>, last |-> i]
    ELSE IF KindAt(TypeEnd(i + 2) + 1) # "Comma"
    THEN [ok |-> TRUE, args |-> <<ItemAt(i)>>, last |-> TypeEnd(i + 2)]
    ELSE IF KindAt(TypeEnd(i + 2) + 2) # "Identifier"
    THEN [ok |-> FALSE, args |-> <<>>, last |-> TypeEnd(i + 2) + 1]
    ELSE [ok |-> ExpectedList(TypeEnd(i + 2) + 2).ok,
          args |-> <<ItemAt(i)>> \o ExpectedList(TypeEnd(i + 2) + 2).args,
          last |-> ExpectedList(TypeEnd(i + 2) + 2).last]

\* The stream starts with `def name (` or `extern name (`.
StartsArgumentList == StartsPrototype /\ KindAt(3) = "OpeningParentheses"

\* The prototype in the item `r` of a definition or of an extern.
PrototypeOf(r) ==
    IF r.val.variant = "FunctionPrototype" THEN r.val.data ELSE r.val.data.prototype

\* C16: a prototype is `identifier ( argument_list )`, the list being zero or more
\* `identifier : type` items separated by commas: no identifier after `(` gives
\* args = [], n items give n FunctionArguments in source order with their names and
\* types, the list ends at the first item not followed by a comma, and a comma not
\* followed by an identifier is an error.
C16_PrototypeArguments ==
    (FirstCallMade /\ StartsArgumentList) =>
        /\ ~ExpectedList(4).ok => out[1].res.tag = "Err"
        /\ (ExpectedList(4).ok /\ KindAt(ExpectedList(4).last + 1) # "ClosingParentheses")
              => out[1].res.tag = "Err"
        /\ (ExpectedList(4).ok /\ KindAt(ExpectedList(4).last + 1) = "ClosingParentheses"
              /\ KindAt(1) = "Extern") =>
              /\ out[1].res.tag = "Ok"
              /\ out[1].res.cur = ExpectedList(4).last + 1
        /\ (ExpectedList(4).ok /\ out[1].res.tag = "Ok") =>
              /\ PrototypeOf(out[1].res).name =
                    PositionRangeContainer(tokens[2].text, tokens[2].position)
              /\ PrototypeOf(out[1].res).args = ExpectedList(4).args

\* Witness of C16: an extern with two arguments, the second of a pointer type, was
\* parsed, and the arguments are in the order of the source.
C16_Witness ==
    /\ FirstCallMade
    /\ KindAt(1) = "Extern"
    /\ out[1].res.tag = "Ok"
    /\ Len(out[1].res.val.data.args) = 2
    /\ out[1].res.val.data.args[1].name.data = "x"
    /\ out[1].res.val.data.args[2].name.data = "y"
    /\ out[1].res.val.data.args[1].data_type.node = "Basic"
    /\ out[1].res.val.data.args[2].data_type.node = "Pointer"

\* The i-th call parsed a type from the token `t`, or from the end of the stream.
TypeCallOn(i, t) ==
    /\ out[i].call \in {"parse_type", "parse_data_type"}
    /\ Peek(out[i].from) = t

\* The i-th call returned Ok(type) having consumed one token.
ClassifiedAs(i, type) ==
    /\ out[i].res.tag = "Ok"
    /\ out[i].res.val = type
    /\ out[i].res.cur = out[i].from + 1

\* C17: a type token that is not the pointer keyword is classified so: the identifier
\* `int` gives Basic(Int), `float` gives Basic(Float), any other identifier gives
\* Struct(name) and never an error, and a token that is not an identifier, or the end
\* of the stream, gives a syntax error.
C17_TypeClassification ==
    \A i \in 1..Len(out) :
        \A t \in {Peek(out[i].from)} :
            TypeCallOn(i, t) =>
                /\ t.text = "int" => ClassifiedAs(i, BasicType("Int", t.position))
                /\ t.text = "float" => ClassifiedAs(i, BasicType("Float", t.position))
                /\ (t.kind = "Identifier" /\ t.text \notin {"int", "float", "ptr"}) =>
                      ClassifiedAs(i, StructType(t.text, t.position))
                /\ t.kind # "Identifier" => out[i].res.tag = "Err"

\* Witness of C17: `float`, then a struct name, then a token that is no type were
\* parsed by three calls of parse_type.
C17_Witness ==
    /\ Len(out) = 3
    /\ \A i \in 1..3 : out[i].call = "parse_type"
    /\ out[1].res.tag = "Ok" /\ out[1].res.val.node = "Basic"
    /\ out[1].res.val.data = "Float"
    /\ out[2].res.tag = "Ok" /\ out[2].res.val.node = "Struct"
    /\ out[2].res.val.data = "Foo"
    /\ out[3].res.tag = "Err" /\ KindAt(out[3].from + 1) = "ClosingParentheses"

(***************************************************************************)
(* The parser of variable declarations applied to a token stream.          *)
(***************************************************************************)
InitDeclaration ==
    /\ \/ \E lexemes \in SeqsUpTo(DeclarationAlphabet, MaxLen + 1) : tokens = Lex(lexemes)
       \/ \E lexemes \in DeclarationInputs : tokens = Lex(lexemes)
    /\ cursor = 0
    /\ out = <<>>
    /\ panicked = FALSE

\* One call of parse_variable_declaration.
CallParseVariableDeclaration ==
    /\ ~panicked
    /\ Len(out) < MaxCalls
    /\ LET r == parse_variable_declaration(cursor)
       IN  /\ out' = Append(out, Call("parse_variable_declaration", cursor, r))
           /\ cursor' = r.cur
           /\ panicked' = (r.tag = "Panic")
    /\ UNCHANGED tokens

NextDeclaration == CallParseVariableDeclaration

SpecDeclaration == InitDeclaration /\ [][NextDeclaration]_vars

\* The index of the name of the declaration the stream starts with: the token after
\* the declaration keyword when there is one.
NameIndex == IF KindAt(1) = "Identifier" /\ tokens[1].text = "var" THEN 2 ELSE 1

\* The index of the first token of the value, the one after `=`.
ValueIndex == TypeEnd(NameIndex + 2) + 2

\* The stream is a declaration `name : type = a OP b`, nothing after it.
IsDeclarationOfBinary ==
    /\ Len(tokens) = ValueIndex + 2
    /\ IsItem(NameIndex)
    /\ tokens[ValueIndex - 1].text = "="
    /\ IsOperand(ValueIndex) /\ IsOperator(ValueIndex + 1) /\ IsOperand(ValueIndex + 2)

\* C18: a declaration `identifier : type = expression` gives VariableDeclaration{name,
\* data_type, value} whose value is the whole expression after `=`: for `1 + 2` the
\* value is Add(1, 2) and every token of the expression is consumed.
C18_DeclarationValue ==
    (Len(out) >= 1 /\ out[1].call = "parse_variable_declaration" /\ IsDeclarationOfBinary)
        =>
        /\ out[1].res.tag = "Ok"
        /\ out[1].res.val.name =
              PositionRangeContainer(tokens[NameIndex].text, tokens[NameIndex].position)
        /\ out[1].res.val.value =
              Binary(Operand(ValueIndex), ValueIndex + 1, Operand(ValueIndex + 2))
        /\ out[1].res.cur = Len(tokens)

(***************************************************************************)
(* The Display form of a SourcePositionRange on its own.                   *)
(***************************************************************************)
\* Position { line, column, offset }
Position(line, column, offset) == [line |-> line, column |-> column, offset |-> offset]

\* SourcePositionRange { source, position: PositionRange { start, end } }
SourcePositionRange(name, start, end) ==
    [source |-> [name |-> name, text |-> "text..."],
     position |-> [start |-> start, end |-> end]]

\* Display for Position: `<line>:<column>`.
PositionToString(position) == ToString(position.line) \o ":" \o ToString(position.column)

\* Display for SourcePositionRange writing the end of the range.
fmt_end(range) == range.source.name \o ":" \o PositionToString(range.position.end)

\* Display for SourcePositionRange::fmt: write!(f, "{}:{}", source.name, position.start)
fmt(range) == range.source.name \o ":" \o PositionToString(range.position.start)

\* The positions and the ranges that are displayed.
Positions == {Position(l, c, o) : l \in {42, 43}, c \in {1, 5}, o \in {1337, 1340}}
Ends == {Position(43, 1, 1340), Position(42, 5, 1340), Position(43, 5, 1337)}
SourceRanges ==
    {SourcePositionRange(n, s, e) : n \in {"file.name", "lib.ftl"}, s \in Positions,
                                    e \in Ends}

InitDisplay ==
    /\ tokens = <<>>
    /\ cursor = 0
    /\ out = <<>>
    /\ panicked = FALSE

\* One evaluation of `range.to_string()`; the last two are kept.
DisplayRange ==
    /\ \E range \in SourceRanges :
          out' = (IF out = <<>> THEN <<>> ELSE <<out[Len(out)]>>)
                    \o <<[call |-> "to_string", range |-> range, res |-> fmt(range)]>>
    /\ UNCHANGED <<tokens, cursor, panicked>>

NextDisplay == DisplayRange

SpecDisplay == InitDisplay /\ [][NextDisplay]_vars

\* C19: the Display form of a SourcePositionRange is
\* `<source name>:<start line>:<start column>`; it depends on the source name and the
\* start only, so two ranges with the same source and start but different ends or
\* offsets display identically.
C19_DisplayForm ==
    /\ \A i \in 1..Len(out) :
          out[i].res = out[i].range.source.name
                          \o ":" \o ToString(out[i].range.position.start.line)
                          \o ":" \o ToString(out[i].range.position.start.column)
    /\ \A i, j \in 1..Len(out) :
          (/\ out[i].range.source = out[j].range.source
           /\ out[i].range.position.start.line = out[j].range.position.start.line
           /\ out[i].range.position.start.column = out[j].range.position.start.column)
              => out[i].res = out[j].res

\* Witness of C19: the range of the test, start 42:5 and end 43:1 in `file.name`, was
\* displayed as `file.name:42:5`, and so was a range with the same start, another
\* offset and another end.
C19_Witness ==
    /\ Len(out) = 2
    /\ out[1].range =
          SourcePositionRange("file.name", Position(42, 5, 1337), Position(43, 1, 1340))
    /\ out[1].res = "file.name:42:5"
    /\ out[2].range =
          SourcePositionRange("file.name", Position(42, 5, 1340), Position(42, 5, 1340))
    /\ out[2].res = "file.name:42:5"

(***************************************************************************)
(* The climbing loop on its own: parse_binary_operation_rhs is called once *)
(* on what follows a left operand, with or without a minimal operator.     *)
(***************************************************************************)
RECURSIVE Tails(_)
\* What follows a left operand: (op p)^k.
Tails(k) ==
    IF k = 0 THEN {<<>>}
    ELSE {t \o <<o, p>> : t \in Tails(k - 1), o \in OperatorLexemes, p \in Primaries}

\* The left operand handed to the loop.
LeftOperand == NumberExpr(PositionRangeContainer("0", DefaultPosition))

\* The minimal operators handed to the loop: none, or any operator.
MinOperators == {NoOperator} \cup {SomeOperator(o, DefaultPosition) : o \in BinaryOperator}

\* Lexemes of the streams the loop is called on that are no operator chain.
ClimbAlphabet == {")", ",", "x", "1", "EOL", "+"}

InitClimb ==
    /\ \/ \E lexemes \in UNION {Tails(k) : k \in 0..MaxOps} : tokens = Lex(lexemes)
       \/ \E lexemes \in SeqsUpTo(ClimbAlphabet, MaxLen - 1) : tokens = Lex(lexemes)
    /\ cursor = 0
    /\ out = <<>>
    /\ panicked = FALSE

\* One call of Parser::parse_binary_operation_rhs(min_operator, lhs).
CallParseBinaryOperationRhs ==
    /\ out = <<>>
    /\ \E min_operator \in MinOperators :
          LET r == parse_binary_operation_rhs(min_operator, LeftOperand, cursor)
          IN  /\ out' = <<[call |-> "parse_binary_operation_rhs", from |-> cursor,
                           min_operator |-> min_operator, res |-> r]>>
              /\ cursor' = r.cur
              /\ panicked' = (r.tag = "Panic")
    /\ UNCHANGED tokens

NextClimb == CallParseBinaryOperationRhs

SpecClimb == InitClimb /\ [][NextClimb]_vars

\* The i-th token is an operator the conversion knows whose level is at most the one
\* of `min_operator`.
NotAbove(i, min_operator) ==
    /\ i <= Len(tokens)
    /\ tokens[i].text \in Convertible
    /\ Level(tokens[i].text) <= OperatorLevel(min_operator.data)

\* The i-th token is an operator the conversion knows whose level is above the one of
\* `min_operator`.
Above(i, min_operator) ==
    /\ i <= Len(tokens)
    /\ tokens[i].text \in Convertible
    /\ Level(tokens[i].text) > OperatorLevel(min_operator.data)

\* C20: when the next operator is not strictly above min_operator the loop stops
\* without consuming it: called in front of such an operator the loop returns lhs with
\* the cursor where it was, and after one operand taken with a stronger operator (the
\* `* c` of `a + b * c + d`) the operator that is not above is still the next token.
C20_StopWithoutConsuming ==
    \A i \in 1..Len(out) :
        (out[i].call = "parse_binary_operation_rhs" /\ out[i].min_operator # NoOperator)
            =>
            /\ NotAbove(out[i].from + 1, out[i].min_operator) =>
                  /\ out[i].res.tag = "Ok"
                  /\ out[i].res.val = LeftOperand
                  /\ out[i].res.cur = out[i].from
            /\ (Above(out[i].from + 1, out[i].min_operator)
                  /\ NotAbove(out[i].from + 3, out[i].min_operator)) =>
                  /\ out[i].res.tag = "Ok"
                  /\ out[i].res.val =
                        Binary(LeftOperand, out[i].from + 1, Operand(out[i].from + 2))
                  /\ out[i].res.cur = out[i].from + 2

\* The kinds of the six binary-operator tokens.
OperatorKinds == {"Plus", "Minus", "Star", "Slash", "Less", "Greater"}

\* C21: when the next token is not a binary operator (`)`, `,`, an identifier, a
\* number), or the stream is exhausted, or a statement terminator is next, the loop
\* returns the lhs it has as a successful result, unchanged, and consumes nothing.
C21_ReturnsLhs ==
    \A i \in 1..Len(out) :
        (out[i].call = "parse_binary_operation_rhs"
            /\ KindAt(out[i].from + 1) \notin OperatorKinds) =>
            /\ out[i].res.tag = "Ok"
            /\ out[i].res.val = LeftOperand
            /\ out[i].res.cur = out[i].from

\* C22: the sequence of results ends at the first error: once a call of next() has
\* returned Some(Err), every later call returns None, whatever tokens remain.
C22_EndsAtFirstError ==
    \A i \in 1..Len(out) : \A j \in (i + 1)..Len(out) :
        (out[i].call = "next" /\ out[i].res.tag = "Err") => out[j].res.tag = "None"

\* The first call of next() failed with an error at the position of the i-th token.
FirstErrorAt(i) ==
    /\ out[1].res.tag = "Err"
    /\ out[1].res.val.position = tokens[i].position

\* C23: an error for an unexpected token carries the position range of that token,
\* neither the position of the token after it nor the default position: the token in
\* place of the name and of the `(` of a prototype, of the type of an argument, and the
\* token that is no operator after an operand.
C23_ErrorPosition ==
    FirstCallMade =>
        /\ (KindAt(1) \in {"FunctionDefinition", "Extern"}
              /\ KindAt(2) \notin {"Identifier", "None"}) => FirstErrorAt(2)
        /\ (StartsPrototype /\ KindAt(3) \notin {"OpeningParentheses", "None"})
              => FirstErrorAt(3)
        /\ (StartsArgumentList /\ KindAt(4) = "Identifier" /\ KindAt(5) = "Colon"
              /\ KindAt(6) \notin {"Identifier", "None"}) => FirstErrorAt(6)
        /\ (KindAt(1) = "Number"
              /\ KindAt(2) \notin OperatorKinds \cup {"EndOfLine", "None"})
              => FirstErrorAt(2)

\* C24: there is no backtracking: over the calls of next() the cursor only moves
\* forward, each call starts where the one before it stopped, so that every token is
\* consumed at most once and in the order of the stream, and the token next() peeked
\* to dispatch is the first one the item is made of.
C24_NoBacktracking ==
    /\ cursor <= Len(tokens)
    /\ \A i \in 1..Len(out) :
          out[i].call = "next" =>
              /\ out[i].from = (IF i = 1 THEN 0 ELSE out[i - 1].res.cur)
              /\ out[i].res.cur >= out[i].from
              /\ out[i].res.cur <= Len(tokens)
              /\ IsTopLevelExpression(out[i]) =>
                    /\ Leftmost(out[i].res.val.data.body) =
                          tokens[SkipTerminators(out[i].from + 1)].position
                    /\ out[i].res.cur >= SkipTerminators(out[i].from + 1)
    /\ (out # <<>> /\ out[1].call = "next") => cursor = out[Len(out)].res.cur

\* Witness of C24: three items were yielded one after the other, each from tokens
\* behind the ones of the item before, up to the end of the stream.
C24_Witness ==
    /\ Len(out) = 3
    /\ \A i \in 1..3 : out[i].call = "next" /\ out[i].res.tag = "Ok"
    /\ out[1].res.cur < out[2].res.cur
    /\ out[2].res.cur < out[3].res.cur
    /\ out[3].res.cur = Len(tokens)

RECURSIVE WellFormedType(_)
\* The range of a DataType, and of every type it points to, starts at or before its end.
WellFormedType(type) ==
    /\ type.position.start <= type.position.end
    /\ type.node = "Pointer" => WellFormedType(type.data)

\* The range of every token of the stream starts at or before its end.
WellFormedTokens == \A i \in 1..Len(tokens) : tokens[i].position.start <= tokens[i].position.end

\* C26: every position range of a DataType that parse_type produces starts at or
\* before its end, for every token stream whose tokens have well-formed ranges; the
\* range of a Pointer, from the start column of `ptr` to the end column of the type
\* pointed to, is never empty or reversed.
C26_WellFormedRanges ==
    WellFormedTokens =>
        \A i \in 1..Len(out) :
            (out[i].call = "parse_type" /\ out[i].res.tag = "Ok")
                => WellFormedType(out[i].res.val)

\* The index of the last token of the chain the stream is: the last token, or the one
\* before a closing statement terminator.
ChainEnd ==
    IF tokens # <<>> /\ tokens[Len(tokens)].kind = "EndOfLine"
    THEN Len(tokens) - 1 ELSE Len(tokens)

\* The stream is an operator chain p1 op1 p2 ... pn, then the end of the input or a
\* statement terminator.
IsChain ==
    /\ ChainEnd >= 1
    /\ ChainEnd % 2 = 1
    /\ \A i \in 1..ChainEnd :
          IF i % 2 = 1 THEN IsOperand(i) ELSE IsOperator(i)

\* The operator at which the reference grammar splits the tokens i..j: the last one
\* of the lowest level among them, every level being left-associative.
SplitAt(i, j) ==
    CHOOSE k \in (i + 1)..(j - 1) :
        /\ (k - i) % 2 = 1
        /\ \A m \in (i + 1)..(j - 1) :
              ((m - i) % 2 = 1) =>
                  \/ Level(tokens[m].text) > Level(tokens[k].text)
                  \/ (Level(tokens[m].text) = Level(tokens[k].text) /\ m <= k)

RECURSIVE Reference(_, _)
\* The tree of the reference grammar for the chain that is the tokens i..j.
Reference(i, j) ==
    IF i = j THEN Operand(i)
    ELSE Binary(Reference(i, SplitAt(i, j) - 1), SplitAt(i, j),
                Reference(SplitAt(i, j) + 1, j))

\* C27: for every operator chain p1 op1 p2 ... pn of numbers and variables over the
\* six operators, followed by the end of the input or a statement terminator, the
\* parse succeeds, consumes exactly the 2n-1 tokens and returns the tree of the
\* reference grammar with three left-associative levels.
C27_ReferenceGrammar ==
    (FirstCallMade /\ IsChain) =>
        /\ FirstBodyIs(Reference(1, ChainEnd))
        /\ out[1].res.cur = ChainEnd

====
